---- MODULE Spec2Model ----
(***************************************************************************)
(* Library-management backend: the /borrow and /return handlers of app.py  *)
(* over the relational tables "user", inventory and borrowed, and the      *)
(* projection of those tables into the graph store by sync.py.             *)
(*                                                                         *)
(* Spec       : requests run one at a time; one action per handler.        *)
(* SpecFaults : the same, with connections and graph writes that fail.     *)
(* SpecUsers  : the batch jobs sync_users_to_neo4j / sync_books_to_neo4j   *)
(*              over arbitrary prior graph contents.                       *)
(* SpecConc   : requests on their own connections, one action per SQL      *)
(*              statement / graph sync step, READ COMMITTED isolation.     *)
(***************************************************************************)
EXTENDS Integers, FiniteSets, Sequences, TLC

\* ---------------------------------------------------------------- bounds
NumUsers == 2
NumBooks == 5
MaxRows == 4
MaxReturns == 1
MaxFaultRows == 2
MaxFaults == 1
NumProcs == 2

\* ------------------------------------------------------ program constants
\* app.py:160  "if borrow_count >= 4"
MaxBorrowed == 4
\* SQL NULL of borrowed.returned_date (app.py:146); every timestamp is >= 1
NULL == 0
\* a request field that is absent or falsy (app.py:137, "if not user_id ...")
Missing == 0

Users == 1..NumUsers
Books == 1..NumBooks
\* one inventory row per book, for every book but the last; row id # book id
InvIdOf(b) == 10 + b
StockedBooks == 1..(NumBooks - 1)
InvIds == {InvIdOf(b) : b \in StockedBooks}
DueDates == {99}

Faults == {"none", "db_connect", "sync_borrowed_connect", "borrowed_write",
           "sync_inventory_connect", "inventory_write"}

ErrRequiredBorrow == "User ID, Book ID, and Due Date are required"
ErrRequiredReturn == "User ID and Book ID are required"
ErrAlready == "You have already borrowed this book"
ErrLimit == "You cannot borrow more than 4 books"
ErrUnavailable == "Book is not available in inventory"
ErrNoRecord == "No borrowed record found for this user and book"
ErrException == "str(e)"
MsgBorrowed == "Book borrowed successfully"
MsgReturned == "Book returned successfully"
MsgUsersSynced == "Users synced to Neo4j."
MsgBooksSynced == "Books with genres synced to Neo4j."

VARIABLES
    user,        \* table "user": id -> [name, email, role]
    inventory,   \* table inventory: id -> [book_id, quantity]
    borrowed,    \* table borrowed: set of rows
    nextId,      \* the sequence behind borrowed.id
    clock,       \* CURRENT_TIMESTAMP, in ticks
    gUser,       \* graph: User nodes, id -> [name, email, role]
    gBook,       \* graph: ids of the Book nodes
    gBorrowed,   \* graph: BORROWED relationships
    gInv,        \* graph: Inventory nodes, id -> quantity
    gHasInv,     \* graph: HAS_INVENTORY relationships <<book id, inventory id>>
    resp,        \* the response of the last request that returned
    faults,      \* failures injected so far
    procs        \* SpecConc: the requests in flight

vars == <<user, inventory, borrowed, nextId, clock, gUser, gBook, gBorrowed,
          gInv, gHasInv, resp, faults, procs>>
relVars == <<user, inventory, borrowed, nextId, clock>>
graphVars == <<gUser, gBook, gBorrowed, gInv, gHasInv>>

\* ------------------------------------------------------ relational store

\* the same query with the test of returned_date inverted
ExistingBorrow_NotNull(bor, u, b) ==
    {r \in bor : r.user_id = u /\ r.book_id = b /\ r.returned_date # NULL}

\* SELECT id FROM borrowed WHERE user_id = u AND book_id = b AND returned_date IS NULL
ExistingBorrow(bor, u, b) ==
    {r \in bor : r.user_id = u /\ r.book_id = b /\ r.returned_date = NULL}

\* SELECT COUNT(*) FROM borrowed WHERE user_id = u AND returned_date IS NULL
BorrowCount(bor, u) ==
    Cardinality({r \in bor : r.user_id = u /\ r.returned_date = NULL})

\* the cap tested with > in place of >=
LimitReached_OffByOne(count) == count > MaxBorrowed

\* "if borrow_count >= 4"
LimitReached(count) == count >= MaxBorrowed

\* SELECT quantity FROM inventory WHERE book_id = b
InventoryRows(inv, b) == {i \in DOMAIN inv : inv[i].book_id = b}

\* the stock tested with "< 0" in place of "<= 0"
Available_ZeroPasses(inv, b) == \E i \in InventoryRows(inv, b) : inv[i].quantity >= 0

\* "if not inventory or inventory[0] <= 0" negated, over the row fetchone() gives
Available(inv, b) == \E i \in InventoryRows(inv, b) : inv[i].quantity > 0

\* INSERT INTO borrowed (user_id, book_id, due_date) VALUES (...) RETURNING id
\* borrowed_date takes the column default (the current timestamp), returned_date NULL
InsertBorrowed(bor, id, u, b, d, now) ==
    bor \cup {[id |-> id, user_id |-> u, book_id |-> b, borrowed_date |-> now,
               due_date |-> d, returned_date |-> NULL]}

\* UPDATE inventory SET quantity = quantity - 1 WHERE book_id = b
DecrementInventory(inv, b) ==
    [i \in DOMAIN inv |->
        IF inv[i].book_id = b THEN [inv[i] EXCEPT !.quantity = @ - 1] ELSE inv[i]]

\* UPDATE borrowed SET returned_date = CURRENT_TIMESTAMP WHERE id = id
MarkReturned(bor, id, now) ==
    {IF r.id = id THEN [r EXCEPT !.returned_date = now] ELSE r : r \in bor}

\* the same update without its WHERE clause
IncrementInventory_NoWhere(inv, b) ==
    [i \in DOMAIN inv |-> [inv[i] EXCEPT !.quantity = @ + 1]]

\* UPDATE inventory SET quantity = quantity + 1 WHERE book_id = b
IncrementInventory(inv, b) ==
    [i \in DOMAIN inv |->
        IF inv[i].book_id = b THEN [inv[i] EXCEPT !.quantity = @ + 1] ELSE inv[i]]

\* ------------------------------------------------------------ graph store

\* SELECT DISTINCT ON (user_id, book_id) ... ORDER BY user_id, book_id, borrowed_date DESC
\* (borrowed_date values are pairwise distinct: the clock advances with every
\* borrow that commits, and in SpecConc with every transaction that begins)
LatestBorrowed(bor) ==
    {r \in bor : \A q \in bor :
        (q.user_id = r.user_id /\ q.book_id = r.book_id)
            => q.borrowed_date <= r.borrowed_date}

\* MATCH (u:User {id}), (b:Book {id}) MERGE (u)-[r:BORROWED {id}]->(b) ON CREATE/ON MATCH SET ...
\* for every record of recs: the relationship is looked up by its end nodes and its id
SameEdge(e, r) == e.id = r.id /\ e.user_id = r.user_id /\ e.book_id = r.book_id

MergeBorrowed(g, recs, gu, gb) ==
    LET hit == {r \in recs : r.user_id \in DOMAIN gu /\ r.book_id \in gb}
    IN  {e \in g : ~\E r \in hit : SameEdge(e, r)} \cup hit

\* MATCH (b:Book {id}) MERGE (inv:Inventory {id}) ON CREATE/ON MATCH SET inv.quantity
\* for the inventory rows in ids
MergeInventory(g, inv, ids, gb) ==
    LET hit == {i \in ids : inv[i].book_id \in gb}
    IN  [i \in DOMAIN g \cup hit |-> IF i \in hit THEN inv[i].quantity ELSE g[i]]

\* ... MERGE (b)-[:HAS_INVENTORY]->(inv)
MergeHasInventory(g, inv, ids, gb) ==
    g \cup {<<inv[i].book_id, i>> : i \in {j \in ids : inv[j].book_id \in gb}}

\* the same merge with u.role set ON CREATE only
MergeUsers_RoleOnCreate(g, usr, ids) ==
    [i \in DOMAIN g \cup ids |->
        IF i \in ids
        THEN [name |-> usr[i].name, email |-> usr[i].email,
              role |-> IF i \in DOMAIN g THEN g[i].role ELSE usr[i].role]
        ELSE g[i]]

\* MERGE (u:User {id}) ON CREATE/ON MATCH SET u.name, u.email, u.role, for the rows in ids
\* (the graph holds at most one User node per id: every User node is made by this MERGE)
MergeUsers(g, usr, ids) ==
    [i \in DOMAIN g \cup ids |->
        IF i \in ids
        THEN [name |-> usr[i].name, email |-> usr[i].email, role |-> usr[i].role]
        ELSE g[i]]

\* --------------------------------------------------------------- initial
NoResp == [status |-> 0, body |-> "", borrow_id |-> NULL, conn |-> "none"]

InitUserTable == [u \in Users |-> [name |-> u, email |-> u, role |-> "member"]]

\* book 1 has two copies, the other stocked books one
InitQuantity(b) == IF b = 1 THEN 2 ELSE 1

InitInventory ==
    [i \in InvIds |-> [book_id |-> i - 10, quantity |-> InitQuantity(i - 10)]]

\* The tables as created; the graph after the batch jobs have put the User and
\* Book nodes in place.
Init ==
    /\ user = InitUserTable
    /\ inventory = InitInventory
    /\ borrowed = {}
    /\ nextId = 1
    /\ clock = 1
    /\ gUser = InitUserTable
    /\ gBook = Books
    /\ gBorrowed = {}
    /\ gInv = << >>
    /\ gHasInv = {}
    /\ resp = NoResp
    /\ faults = 0
    /\ procs = << >>

\* ---------------------------------------------- handlers, one at a time

\* jsonify(...), status; conn is the state the handler leaves its own relational
\* connection in: "none" (never opened), "closed" or "open"
Respond(status, body, id, conn) ==
    resp' = [status |-> status, body |-> body, borrow_id |-> id, conn |-> conn]

\* sync_borrowed_to_neo4j() then sync_inventory_to_neo4j() on the committed
\* tables bor, inv, with failure f; ok is the handler's success response.
\* A failing write of one borrowed record is caught and skipped; every other
\* failure raises into the handler's "except Exception" and becomes a 500.
SyncAfterCommit(bor, inv, f, okStatus, okBody, id) ==
    /\ UNCHANGED <<gUser, gBook>>
    /\ CASE f = "none" ->
              /\ gBorrowed' = MergeBorrowed(gBorrowed, LatestBorrowed(bor), gUser, gBook)
              /\ gInv' = MergeInventory(gInv, inv, DOMAIN inv, gBook)
              /\ gHasInv' = MergeHasInventory(gHasInv, inv, DOMAIN inv, gBook)
              /\ Respond(okStatus, okBody, id, "closed")
         [] f = "sync_borrowed_connect" ->
              /\ UNCHANGED <<gBorrowed, gInv, gHasInv>>
              /\ Respond(500, ErrException, NULL, "closed")
         [] f = "borrowed_write" ->
              /\ \E bad \in LatestBorrowed(bor) :
                    gBorrowed' = MergeBorrowed(gBorrowed, LatestBorrowed(bor) \ {bad},
                                               gUser, gBook)
              /\ gInv' = MergeInventory(gInv, inv, DOMAIN inv, gBook)
              /\ gHasInv' = MergeHasInventory(gHasInv, inv, DOMAIN inv, gBook)
              /\ Respond(okStatus, okBody, id, "closed")
         [] f = "sync_inventory_connect" ->
              /\ gBorrowed' = MergeBorrowed(gBorrowed, LatestBorrowed(bor), gUser, gBook)
              /\ UNCHANGED <<gInv, gHasInv>>
              /\ Respond(500, ErrException, NULL, "closed")
         [] f = "inventory_write" ->
              /\ gBorrowed' = MergeBorrowed(gBorrowed, LatestBorrowed(bor), gUser, gBook)
              /\ \E done \in SUBSET (DOMAIN inv) :
                    /\ done # DOMAIN inv
                    /\ gInv' = MergeInventory(gInv, inv, done, gBook)
                    /\ gHasInv' = MergeHasInventory(gHasInv, inv, done, gBook)
              /\ Respond(500, ErrException, NULL, "closed")

Inject(f) ==
    /\ f # "none" => faults < MaxFaults
    /\ faults' = IF f = "none" THEN faults ELSE faults + 1

\* POST /borrow
BorrowBook(u, b, d, f) ==
    /\ Inject(f)
    /\ UNCHANGED <<user, procs>>
    /\ IF u = Missing \/ b = Missing \/ d = Missing
       THEN /\ f = "none"
            /\ Respond(400, ErrRequiredBorrow, NULL, "none")
            /\ UNCHANGED <<inventory, borrowed, nextId, clock, graphVars>>
       ELSE IF f = "db_connect"
       THEN /\ Respond(500, ErrException, NULL, "none")
            /\ UNCHANGED <<inventory, borrowed, nextId, clock, graphVars>>
       ELSE IF ExistingBorrow(borrowed, u, b) # {}
       THEN /\ f = "none"
            /\ Respond(400, ErrAlready, NULL, "closed")
            /\ UNCHANGED <<inventory, borrowed, nextId, clock, graphVars>>
       ELSE IF LimitReached(BorrowCount(borrowed, u))
       THEN /\ f = "none"
            /\ Respond(400, ErrLimit, NULL, "closed")
            /\ UNCHANGED <<inventory, borrowed, nextId, clock, graphVars>>
       ELSE IF ~Available(inventory, b)
       THEN /\ f = "none"
            /\ Respond(400, ErrUnavailable, NULL, "closed")
            /\ UNCHANGED <<inventory, borrowed, nextId, clock, graphVars>>
       ELSE /\ nextId <= MaxRows
            /\ borrowed' = InsertBorrowed(borrowed, nextId, u, b, d, clock)
            /\ inventory' = DecrementInventory(inventory, b)
            /\ nextId' = nextId + 1
            /\ clock' = clock + 1
            /\ SyncAfterCommit(borrowed', inventory', f,
                               201, MsgBorrowed, nextId)

\* POST /return
ReturnBook(u, b, f) ==
    /\ Inject(f)
    /\ UNCHANGED <<user, procs, nextId>>
    /\ IF u = Missing \/ b = Missing
       THEN /\ f = "none"
            /\ Respond(400, ErrRequiredReturn, NULL, "none")
            /\ UNCHANGED <<inventory, borrowed, clock, graphVars>>
       ELSE IF f = "db_connect"
       THEN /\ Respond(500, ErrException, NULL, "none")
            /\ UNCHANGED <<inventory, borrowed, clock, graphVars>>
       ELSE IF ExistingBorrow(borrowed, u, b) = {}
       THEN /\ f = "none"
            /\ Respond(404, ErrNoRecord, NULL, "open")
            /\ UNCHANGED <<inventory, borrowed, clock, graphVars>>
       ELSE /\ Cardinality({r \in borrowed : r.returned_date # NULL}) < MaxReturns
            /\ \E rec \in ExistingBorrow(borrowed, u, b) :
                  borrowed' = MarkReturned(borrowed, rec.id, clock)
            /\ inventory' = IncrementInventory(inventory, b)
            /\ UNCHANGED clock
            /\ SyncAfterCommit(borrowed', inventory', f,
                               200, MsgReturned, NULL)

\* sync_all(): the batch entry point, sync_borrowed_to_neo4j() on the whole table
\* (its other two calls write Genre nodes and SIMILAR_TO edges only)
SyncBorrowed ==
    /\ gBorrowed' = MergeBorrowed(gBorrowed, LatestBorrowed(borrowed), gUser, gBook)
    /\ UNCHANGED <<relVars, gUser, gBook, gInv, gHasInv, resp, faults, procs>>

\* requests: the well-formed ones, and one with each required field missing
BorrowRequests ==
    (Users \X Books \X DueDates)
        \cup {<<Missing, 1, 99>>, <<1, Missing, 99>>, <<1, 1, Missing>>}
ReturnRequests == (Users \X Books) \cup {<<Missing, 1>>, <<1, Missing>>}

\* Requests one at a time, every store reachable
Next ==
    \/ \E q \in BorrowRequests : BorrowBook(q[1], q[2], q[3], "none")
    \/ \E q \in ReturnRequests : ReturnBook(q[1], q[2], "none")
    \/ SyncBorrowed

Spec == Init /\ [][Next]_vars

\* Requests one at a time, with connections and graph writes that may fail
NextFaults ==
    \/ \E q \in BorrowRequests, f \in Faults :
          BorrowBook(q[1], q[2], q[3], f) /\ nextId' <= MaxFaultRows + 1
    \/ \E q \in ReturnRequests, f \in Faults : ReturnBook(q[1], q[2], f)
    \/ SyncBorrowed

SpecFaults == Init /\ [][NextFaults]_vars

TypeOK ==
    /\ nextId \in 1..(MaxRows + NumProcs + 1)
    /\ clock >= nextId
    /\ faults \in 0..MaxFaults
    /\ \A r \in borrowed : r.user_id \in Users /\ r.book_id \in Books

\* ------------------------------------------------------- the batch jobs
UserProps == [name : {"n1", "n2"}, email : {"e1", "e2"}, role : {"member", "admin"}]
\* the values a row of "user" takes: two rows that differ in every column
RowProps == {[name |-> "n1", email |-> "e1", role |-> "member"],
             [name |-> "n2", email |-> "e2", role |-> "admin"]}
\* ids a User node may carry: those of the rows, and one of a row since deleted
GraphUserIds == 1..(NumUsers + 1)
PartialMaps(D, R) == UNION {[X -> R] : X \in SUBSET D}

\* a "user" table, and any User and Book nodes left in the graph by earlier runs
InitUsers ==
    /\ user \in [Users -> RowProps]
    /\ gUser \in PartialMaps(GraphUserIds, UserProps)
    /\ gBook \in {{}, Books}
    /\ inventory = InitInventory
    /\ borrowed = {}
    /\ nextId = 1
    /\ clock = 1
    /\ gBorrowed = {}
    /\ gInv = << >>
    /\ gHasInv = {}
    /\ resp = NoResp
    /\ faults = 0
    /\ procs = << >>

\* sync_users_to_neo4j(): f = "db_connect" is get_pg_connection() returning None,
\* f = "user_write" a run_query that raises after the rows in done were merged
SyncUsers(f) ==
    /\ Inject(f)
    /\ UNCHANGED <<relVars, gBook, gBorrowed, gInv, gHasInv, procs>>
    /\ CASE f = "none" ->
              /\ gUser' = MergeUsers(gUser, user, DOMAIN user)
              /\ Respond(0, MsgUsersSynced, NULL, "closed")
         [] f = "db_connect" ->
              /\ UNCHANGED gUser
              /\ Respond(0, ErrException, NULL, "none")
         [] f = "user_write" ->
              /\ \E done \in SUBSET (DOMAIN user) :
                    /\ done # DOMAIN user
                    /\ gUser' = MergeUsers(gUser, user, done)
              /\ Respond(0, ErrException, NULL, "open")

\* sync_books_to_neo4j(): a Book node for every row of book
SyncBooks ==
    /\ gBook' = gBook \cup Books
    /\ Respond(0, MsgBooksSynced, NULL, "closed")
    /\ UNCHANGED <<relVars, gUser, gBorrowed, gInv, gHasInv, faults, procs>>

NextUsers ==
    \/ \E f \in {"none", "db_connect", "user_write"} : SyncUsers(f)
    \/ SyncBooks

SpecUsers == InitUsers /\ [][NextUsers]_vars

\* ------------------------------- concurrent requests, statement by statement
\* Each request runs on its own connection (app.py:140, 244), in one transaction
\* at the driver's default isolation, READ COMMITTED: a statement reads what is
\* committed when it runs, an UPDATE locks its rows until the commit, and an
\* UPDATE that waited for a lock runs on the row as the other commit left it.
Procs == 1..NumProcs

IdleProc == [pc |-> "idle", op |-> "none", user_id |-> Missing, book_id |-> Missing,
             due_date |-> Missing, now |-> NULL, rec |-> NULL,
             rowLock |-> {}, invLock |-> {}, snapB |-> {}, snapI |-> << >>,
             status |-> 0, body |-> "", conn |-> "none"]

\* the tables and the graph after BorrowBook(1, 2), BorrowBook(1, 3) and
\* BorrowBook(1, 4) have run one after the other from Init
SeedRows ==
    {[id |-> k, user_id |-> 1, book_id |-> k + 1, borrowed_date |-> k,
      due_date |-> 99, returned_date |-> NULL] : k \in 1..3}
SeedInventory ==
    [i \in InvIds |-> [book_id |-> i - 10,
                       quantity |-> IF i - 10 \in 2..4 THEN 0 ELSE InitQuantity(i - 10)]]
SeedState ==
    /\ borrowed = SeedRows
    /\ inventory = SeedInventory
    /\ nextId = 4
    /\ clock = 4
    /\ gBorrowed = SeedRows
    /\ gInv = [i \in InvIds |-> SeedInventory[i].quantity]
    /\ gHasInv = {<<i - 10, i>> : i \in InvIds}

InitConc ==
    /\ user = InitUserTable
    /\ gUser = InitUserTable
    /\ gBook = Books
    /\ resp = NoResp
    /\ faults = 0
    /\ procs = [p \in Procs |-> IdleProc]
    /\ \/ /\ inventory = InitInventory
          /\ borrowed = {}
          /\ nextId = 1
          /\ clock = 1
          /\ gBorrowed = {}
          /\ gInv = << >>
          /\ gHasInv = {}
       \/ SeedState

Goto(p, pc) == procs' = [procs EXCEPT ![p].pc = pc]

\* the handler returns: conn.close() where the path has one, then the response
Return(p, status, body, conn) ==
    procs' = [procs EXCEPT ![p].pc = "done", ![p].status = status, ![p].body = body,
                           ![p].conn = conn, ![p].rowLock = {}, ![p].invLock = {}]

\* POST /borrow arrives: get_db_connection(), conn.cursor()
StartBorrow(p, u, b, d) ==
    /\ procs[p].pc = "idle"
    /\ procs' = [procs EXCEPT ![p].pc = "b_existing", ![p].op = "borrow",
                              ![p].user_id = u, ![p].book_id = b, ![p].due_date = d,
                              ![p].conn = "open"]
    /\ UNCHANGED <<relVars, graphVars, resp, faults>>

\* the first statement opens the transaction: its timestamp is the clock's
BorrowCheckExisting(p) ==
    /\ procs[p].pc = "b_existing"
    /\ clock' = clock + 1
    /\ IF ExistingBorrow(borrowed, procs[p].user_id, procs[p].book_id) # {}
       THEN Return(p, 400, ErrAlready, "closed")
       ELSE procs' = [procs EXCEPT ![p].pc = "b_count", ![p].now = clock]
    /\ UNCHANGED <<user, inventory, borrowed, nextId, graphVars, resp, faults>>

BorrowCheckLimit(p) ==
    /\ procs[p].pc = "b_count"
    /\ IF LimitReached(BorrowCount(borrowed, procs[p].user_id))
       THEN Return(p, 400, ErrLimit, "closed")
       ELSE Goto(p, "b_stock")
    /\ UNCHANGED <<relVars, graphVars, resp, faults>>

BorrowCheckInventory(p) ==
    /\ procs[p].pc = "b_stock"
    /\ IF ~Available(inventory, procs[p].book_id)
       THEN Return(p, 400, ErrUnavailable, "closed")
       ELSE Goto(p, "b_insert")
    /\ UNCHANGED <<relVars, graphVars, resp, faults>>

\* INSERT ... RETURNING id: the sequence moves at once, the row waits for the commit
BorrowInsert(p) ==
    /\ procs[p].pc = "b_insert"
    /\ nextId' = nextId + 1
    /\ procs' = [procs EXCEPT ![p].pc = "b_update", ![p].rec = nextId]
    /\ UNCHANGED <<user, inventory, borrowed, clock, graphVars, resp, faults>>

InvLockFree(p, b) ==
    \A q \in Procs \ {p} : procs[q].invLock \cap InventoryRows(inventory, b) = {}

\* UPDATE inventory ...: takes the row locks, waits while another transaction has them
LockInventory(p, from, to) ==
    /\ procs[p].pc = from
    /\ InvLockFree(p, procs[p].book_id)
    /\ procs' = [procs EXCEPT ![p].pc = to,
                              ![p].invLock = InventoryRows(inventory, procs[p].book_id)]
    /\ UNCHANGED <<relVars, graphVars, resp, faults>>

BorrowUpdateInventory(p) == LockInventory(p, "b_update", "b_commit")

\* conn.commit(); cur.close(); conn.close()
BorrowCommit(p) ==
    /\ procs[p].pc = "b_commit"
    /\ borrowed' = InsertBorrowed(borrowed, procs[p].rec, procs[p].user_id,
                                  procs[p].book_id, procs[p].due_date, procs[p].now)
    /\ inventory' = DecrementInventory(inventory, procs[p].book_id)
    /\ procs' = [procs EXCEPT ![p].pc = "s_borrowed_read", ![p].conn = "closed",
                              ![p].rowLock = {}, ![p].invLock = {}]
    /\ UNCHANGED <<user, nextId, clock, graphVars, resp, faults>>

\* POST /return arrives
StartReturn(p, u, b) ==
    /\ procs[p].pc = "idle"
    /\ procs' = [procs EXCEPT ![p].pc = "r_select", ![p].op = "return",
                              ![p].user_id = u, ![p].book_id = b, ![p].conn = "open"]
    /\ UNCHANGED <<relVars, graphVars, resp, faults>>

\* SELECT id ... fetchone(); without a row the handler returns, its connection open
ReturnSelect(p) ==
    /\ procs[p].pc = "r_select"
    /\ clock' = clock + 1
    /\ IF ExistingBorrow(borrowed, procs[p].user_id, procs[p].book_id) = {}
       THEN Return(p, 404, ErrNoRecord, "open")
       ELSE \E r \in ExistingBorrow(borrowed, procs[p].user_id, procs[p].book_id) :
               procs' = [procs EXCEPT ![p].pc = "r_mark", ![p].rec = r.id,
                                      ![p].now = clock]
    /\ UNCHANGED <<user, inventory, borrowed, nextId, graphVars, resp, faults>>

\* UPDATE borrowed SET returned_date ... WHERE id = rec: locks the row
ReturnMark(p) ==
    /\ procs[p].pc = "r_mark"
    /\ \A q \in Procs \ {p} : procs[p].rec \notin procs[q].rowLock
    /\ procs' = [procs EXCEPT ![p].pc = "r_update", ![p].rowLock = {procs[p].rec}]
    /\ UNCHANGED <<relVars, graphVars, resp, faults>>

ReturnUpdateInventory(p) == LockInventory(p, "r_update", "r_commit")

ReturnCommit(p) ==
    /\ procs[p].pc = "r_commit"
    /\ borrowed' = MarkReturned(borrowed, procs[p].rec, procs[p].now)
    /\ inventory' = IncrementInventory(inventory, procs[p].book_id)
    /\ procs' = [procs EXCEPT ![p].pc = "s_borrowed_read", ![p].conn = "closed",
                              ![p].rowLock = {}, ![p].invLock = {}]
    /\ UNCHANGED <<user, nextId, clock, graphVars, resp, faults>>

\* sync_borrowed_to_neo4j(): the SELECT DISTINCT ON, on a connection of its own
SyncBorrowedRead(p) ==
    /\ procs[p].pc = "s_borrowed_read"
    /\ procs' = [procs EXCEPT ![p].pc = "s_borrowed_write",
                              ![p].snapB = LatestBorrowed(borrowed)]
    /\ UNCHANGED <<relVars, graphVars, resp, faults>>

\* ... and its MERGE of every record read
SyncBorrowedWrite(p) ==
    /\ procs[p].pc = "s_borrowed_write"
    /\ gBorrowed' = MergeBorrowed(gBorrowed, procs[p].snapB, gUser, gBook)
    /\ procs' = [procs EXCEPT ![p].pc = "s_inventory_read", ![p].snapB = {}]
    /\ UNCHANGED <<relVars, gUser, gBook, gInv, gHasInv, resp, faults>>

\* sync_inventory_to_neo4j(): SELECT id, book_id, quantity FROM inventory
SyncInventoryRead(p) ==
    /\ procs[p].pc = "s_inventory_read"
    /\ procs' = [procs EXCEPT ![p].pc = "s_inventory_write", ![p].snapI = inventory]
    /\ UNCHANGED <<relVars, graphVars, resp, faults>>

\* ... its MERGE of every record read, and the handler's success response
SyncInventoryWrite(p) ==
    /\ procs[p].pc = "s_inventory_write"
    /\ gInv' = MergeInventory(gInv, procs[p].snapI, DOMAIN procs[p].snapI, gBook)
    /\ gHasInv' = MergeHasInventory(gHasInv, procs[p].snapI, DOMAIN procs[p].snapI, gBook)
    /\ procs' = [procs EXCEPT ![p].pc = "done", ![p].snapI = << >>,
                    ![p].status = IF procs[p].op = "borrow" THEN 201 ELSE 200,
                    ![p].body = IF procs[p].op = "borrow" THEN MsgBorrowed ELSE MsgReturned]
    /\ UNCHANGED <<relVars, gUser, gBook, gBorrowed, resp, faults>>

NextConc ==
    \E p \in Procs :
        \/ \E u \in Users, b \in Books, d \in DueDates : StartBorrow(p, u, b, d)
        \/ BorrowCheckExisting(p)
        \/ BorrowCheckLimit(p)
        \/ BorrowCheckInventory(p)
        \/ BorrowInsert(p)
        \/ BorrowUpdateInventory(p)
        \/ BorrowCommit(p)
        \/ \E u \in Users, b \in Books : StartReturn(p, u, b)
        \/ ReturnSelect(p)
        \/ ReturnMark(p)
        \/ ReturnUpdateInventory(p)
        \/ ReturnCommit(p)
        \/ SyncBorrowedRead(p)
        \/ SyncBorrowedWrite(p)
        \/ SyncInventoryRead(p)
        \/ SyncInventoryWrite(p)

SpecConc == InitConc /\ [][NextConc]_vars

\* ----------------------------------------------- vocabulary of the claims
OutstandingOf(u) == {r \in borrowed : r.user_id = u /\ r.returned_date = NULL}
OutstandingPair(u, b) == {r \in OutstandingOf(u) : r.book_id = b}
Holds(u, b) == OutstandingPair(u, b) # {}
InStock(b) == \E i \in DOMAIN inventory : inventory[i].book_id = b /\ inventory[i].quantity > 0
Rejected400(body) == resp'.status = 400 /\ resp'.body = body
TablesUnchanged == borrowed' = borrowed /\ inventory' = inventory
\* inventory after changing by k the quantity of the rows of book b, and no other
QuantityMoved(b, k) ==
    /\ DOMAIN inventory' = DOMAIN inventory
    /\ \A i \in DOMAIN inventory :
          /\ inventory'[i].book_id = inventory[i].book_id
          /\ inventory'[i].quantity =
                inventory[i].quantity + (IF inventory[i].book_id = b THEN k ELSE 0)

AtMostFourOutstanding == \A u \in Users : Cardinality(OutstandingOf(u)) <= 4
AtMostOnePerPair == \A u \in Users, b \in Books : Cardinality(OutstandingPair(u, b)) <= 1
QuantityNonNegative == \A i \in DOMAIN inventory : inventory[i].quantity >= 0

\* ---------------------------------------------------------------- claims

C2_AlreadyBorrowedFirst ==
    /\ []AtMostOnePerPair
    /\ [][\A u \in Users, b \in Books, d \in DueDates :
            (Holds(u, b) /\ BorrowBook(u, b, d, "none"))
                => (Rejected400(ErrAlready) /\ TablesUnchanged)]_vars

\* U holds a book whose stock is exhausted and was just told "already borrowed"
C2_Witness ==
    /\ resp.status = 400 /\ resp.body = ErrAlready
    /\ \E u \in Users, b \in Books : Holds(u, b) /\ ~InStock(b)

\* a successful borrow: exactly one new row, outstanding, of (u, b); b's quantity - 1
BorrowedOne(u, b) ==
    /\ borrowed \subseteq borrowed'
    /\ \E r \in borrowed' \ borrowed :
          /\ borrowed' \ borrowed = {r}
          /\ r.user_id = u /\ r.book_id = b /\ r.returned_date = NULL
          /\ r.id = resp'.borrow_id
    /\ QuantityMoved(b, -1)

\* C3 as stated: one request at a time, BorrowBook for a book with quantity 0 or no
\* inventory row is rejected with "not available" and changes no table; a
\* successful BorrowBook inserts one outstanding row and takes 1 from the book's
\* quantity; the quantity is never negative.
C3_AsStated ==
    /\ []QuantityNonNegative
    /\ [][\A u \in Users, b \in Books, d \in DueDates :
            BorrowBook(u, b, d, "none") =>
                /\ ~InStock(b) => (Rejected400(ErrUnavailable) /\ TablesUnchanged)
                /\ resp'.status = 201 => BorrowedOne(u, b)]_vars

\* C3 amended: such a request is rejected with a 400 and changes no table; the
\* error is "not available" when the user does not hold the book and holds fewer
\* than 4 books (otherwise the earlier check's error is reported); the rest as stated.
C3_Inventory ==
    /\ []QuantityNonNegative
    /\ [][\A u \in Users, b \in Books, d \in DueDates :
            BorrowBook(u, b, d, "none") =>
                /\ ~InStock(b) =>
                      /\ resp'.status = 400 /\ TablesUnchanged
                      /\ (~Holds(u, b) /\ Cardinality(OutstandingOf(u)) < 4)
                            => resp'.body = ErrUnavailable
                /\ InStock(b) /\ ~Holds(u, b) /\ Cardinality(OutstandingOf(u)) < 4
                      => resp'.status = 201
                /\ resp'.status = 201 => BorrowedOne(u, b)]_vars

\* a book's last copy is out and a request for it was just rejected as not available
C3_Witness ==
    /\ resp.status = 400 /\ resp.body = ErrUnavailable
    /\ \E i \in DOMAIN inventory :
          /\ inventory[i].quantity = 0
          /\ \E r \in borrowed : r.book_id = inventory[i].book_id

\* a return: one outstanding row of (u, b) gets its returned_date, no other row changes
ReturnedOne(u, b) ==
    \E r \in OutstandingPair(u, b) :
        \E q \in borrowed' :
            /\ q.returned_date # NULL
            /\ q = [r EXCEPT !.returned_date = q.returned_date]
            /\ borrowed' = (borrowed \ {r}) \cup {q}

\* C4: ReturnBook(U,B) without an outstanding row of (U,B) fails with 404 and
\* changes no table; otherwise it sets returned_date on exactly one outstanding
\* row of (U,B), leaves the other rows alone and adds 1 to B's quantity.
C4_Return ==
    [][\A u \in Users, b \in Books :
            ReturnBook(u, b, "none") =>
                IF Holds(u, b)
                THEN ReturnedOne(u, b) /\ QuantityMoved(b, 1)
                ELSE /\ resp'.status = 404 /\ resp'.body = ErrNoRecord
                     /\ TablesUnchanged]_vars

\* a book was borrowed and has just been returned
C4_Witness ==
    /\ resp.status = 200 /\ resp.body = MsgReturned
    /\ \E r \in borrowed : r.returned_date # NULL

\* every pair's rows and edges
RowsOfPair(u, b) == {r \in borrowed : r.user_id = u /\ r.book_id = b}
EdgesOfPair(u, b) == {e \in gBorrowed : e.user_id = u /\ e.book_id = b}
\* sync_borrowed has run on the tables as they are: running it again changes nothing
BorrowedSynced ==
    gBorrowed = MergeBorrowed(gBorrowed, LatestBorrowed(borrowed), gUser, gBook)

\* C6: with the User and Book nodes in the graph, once the borrowed sync has run
\* on the tables as they are, every (user, book) pair with borrowed rows has
\* exactly one BORROWED edge, and it carries the id and dates of the pair's row
\* with the latest borrowed_date.
C6_OneEdgePerPair ==
    (BorrowedSynced /\ DOMAIN user \subseteq DOMAIN gUser /\ Books \subseteq gBook) =>
        \A u \in Users, b \in Books :
            RowsOfPair(u, b) # {} =>
                \E r \in RowsOfPair(u, b) :
                    /\ \A q \in RowsOfPair(u, b) : q.borrowed_date <= r.borrowed_date
                    /\ EdgesOfPair(u, b) = {r}

SyncFaults == {"sync_borrowed_connect", "borrowed_write", "sync_inventory_connect",
               "inventory_write"}

\* C7: when a step of the graph sync fails after BorrowBook or ReturnBook has
\* committed, the request still answers with its success response (201 and the
\* borrow_id, or 200) and the committed change stays in place.
C7_SyncFailureHidden ==
    [][\A f \in SyncFaults :
         /\ \A q \in BorrowRequests :
               (borrowed' # borrowed /\ BorrowBook(q[1], q[2], q[3], f)) =>
                   /\ resp'.status = 201 /\ resp'.borrow_id = nextId
                   /\ \E r \in borrowed' : r.id = nextId /\ r.returned_date = NULL
         /\ \A q \in ReturnRequests :
               (borrowed' # borrowed /\ ReturnBook(q[1], q[2], f)) =>
                   /\ resp'.status = 200
                   /\ \A r \in OutstandingPair(q[1], q[2]) : r \notin borrowed']_vars

\* C9: no handler returns with its relational connection still open.
C9_ConnectionClosed == resp.conn # "open"

\* C8: after sync_users_to_neo4j completes, every row of "user" has its User node,
\* with the row's name, email and role, whatever the graph held before; and a
\* second run right after a completed one changes nothing.
C8_UsersSynced ==
    /\ [](resp.body = MsgUsersSynced =>
            \A i \in DOMAIN user :
                /\ i \in DOMAIN gUser
                /\ gUser[i].name = user[i].name
                /\ gUser[i].email = user[i].email
                /\ gUser[i].role = user[i].role)
    /\ [][(resp.body = MsgUsersSynced /\ SyncUsers("none")) => gUser' = gUser]_vars

\* the sync completed over a graph that held a node with other properties, and
\* a node of no row
C8_Witness ==
    /\ resp.body = MsgUsersSynced
    /\ \E i \in DOMAIN gUser : i \notin DOMAIN user
    /\ \A i \in DOMAIN user : i \in DOMAIN gUser /\ gUser[i] = user[i]

\* C5: however the statements of concurrent BorrowBook requests interleave, no
\* user has more than 4 outstanding rows, no (user, book) pair more than one,
\* and no inventory quantity is below 0.
C5_ConcurrentBorrowSafe ==
    AtMostFourOutstanding /\ AtMostOnePerPair /\ QuantityNonNegative

AllReturned == \A p \in Procs : procs[p].pc \in {"idle", "done"}

\* C10: once every request has returned (every sync having succeeded, the Book
\* nodes present), each Inventory node's quantity is that of the inventory row
\* with its id.
C10_InventoryProjection ==
    AllReturned =>
        \A i \in DOMAIN gInv : i \in DOMAIN inventory /\ gInv[i] = inventory[i].quantity

\* the outstanding rows of book b, whoever holds it
OutstandingOfBook(b) == {r \in borrowed : r.book_id = b /\ r.returned_date = NULL}
InventoryRowsOf(b) == {i \in DOMAIN inventory : inventory[i].book_id = b}
\* the copies of book b the committed tables account for: on the shelf and lent
Copies(b) ==
    LET i == CHOOSE j \in InventoryRowsOf(b) : TRUE
    IN  inventory[i].quantity + Cardinality(OutstandingOfBook(b))

\* C11: for every book with exactly one inventory row, its inventory quantity
\* plus the number of its outstanding borrowed rows is in every state what it
\* was at the start, however the statements of concurrent BorrowBook and
\* ReturnBook requests interleave.
C11_CopiesConserved ==
    \A b \in Books :
        Cardinality(InventoryRowsOf(b)) = 1 => Copies(b) = InitQuantity(b)

\* C11 for requests served one after the other: the same sum, under Spec
C11_CopiesConservedSequential ==
    \A b \in StockedBooks : Copies(b) = InitQuantity(b)

\* two ReturnBook requests of one outstanding row have both committed
C11_DoubleReturn ==
    \E p \in Procs, q \in Procs :
        /\ p # q
        /\ procs[p].op = "return" /\ procs[q].op = "return"
        /\ procs[p].rec # NULL /\ procs[p].rec = procs[q].rec
        /\ procs[p].status = 200 /\ procs[q].status = 200

\* the state SpecConc may start from is one the handlers reach one at a time
SeedReached == SeedState /\ resp.status = 201 /\ resp.borrow_id = 3
====
